---------------------------- MODULE Spec2Model ----------------------------
(***************************************************************************)
(* A model of the CPPDataStore object store (src/DataObject.hpp,           *)
(* src/DataObject.cpp): the DataValue / DataObject binary codec and the    *)
(* DataObjectCollection that owns nextId, the vector of objects and the    *)
(* backing file.                                                           *)
(*                                                                         *)
(* The file on disk is a sequence of bytes.  Integers are written in the   *)
(* platform's native byte order; the model fixes little-endian (the code   *)
(* builds only with a compiler that accepts std::exception(const char* ),  *)
(* whose targets are little-endian).                                       *)
(***************************************************************************)
EXTENDS Integers, Sequences, FiniteSets, TLC

(***************************************************************************)
(* Bounds of the model.                                                    *)
(***************************************************************************)
\* nextId and DataObject::id are uint32_t and wrap modulo 2^32.  The model
\* scales the range of the counter to IdSpace values (0 .. IdSpace-1) so that
\* the wrap-around, which the code reaches after 2^32 - 1 createObject calls,
\* is within the model checker's reach.  Encoded widths stay 4 bytes.
IdSpace == 4

\* Largest number of objects held in the vector.
MaxObjects == 2

\* Largest number of objects held at a time in the specifications whose
\* objects have entries and a file (all but SpecIds, SpecMem and Spec).
MaxEntryObjects == 1

(***************************************************************************)
(* Program constants: the DataValue type tag (enum : uint8_t).             *)
(***************************************************************************)
TYPE_STRING == 0

TYPE_INTEGER == 1

TYPE_FLOAT == 2

(***************************************************************************)
(* Fixed-width integers as bytes (little-endian).                          *)
(***************************************************************************)
\* The 4 bytes of a uint32_t (values below 2^31 in the model).
U32Bytes(n) ==
    << n % 256, (n \div 256) % 256, (n \div 65536) % 256, (n \div 16777216) % 256 >>

\* The uint32_t held by 4 bytes.
BytesU32(b) == b[1] + 256 * b[2] + 65536 * b[3] + 16777216 * b[4]

\* A variant that writes the most significant byte first.
Int32Bytes_bigEndian(v) ==
    IF v >= 0
    THEN LET b == U32Bytes(v) IN << b[4], b[3], b[2], b[1] >>
    ELSE LET b == U32Bytes((v + 2147483647) + 1)
         IN  << b[4] + 128, b[3], b[2], b[1] >>

\* The 4 bytes of an int32_t in two's complement.
Int32Bytes(v) ==
    IF v >= 0
    THEN U32Bytes(v)
    ELSE LET low == (v + 2147483647) + 1   \* v + 2^31, the low 31 bits
             b == U32Bytes(low)
         IN  << b[1], b[2], b[3], b[4] + 128 >>

\* The int32_t held by 4 bytes.
BytesInt32(b) ==
    IF b[4] >= 128
    THEN ((b[4] - 256) * 16777216) + (65536 * b[3] + 256 * b[2] + b[1])
    ELSE BytesU32(b)

(***************************************************************************)
(* DataValue: a tag and the union member the tag selects.                  *)
(***************************************************************************)
\* DataValue::DataValue(): INTEGER zero.
DataValue_default == [type |-> TYPE_INTEGER, intValue |-> 0]

\* DataValue::DataValue(const std::string&)
DataValue_string(s) == [type |-> TYPE_STRING, stringValue |-> s]

\* DataValue::DataValue(int32_t)
DataValue_int(v) == [type |-> TYPE_INTEGER, intValue |-> v]

\* DataValue::DataValue(float): the float is kept as its 4-byte bit pattern.
DataValue_float(bits) == [type |-> TYPE_FLOAT, floatValue |-> bits]

\* DataValue::DataValue(const DataValue&): the tag, then the member of the
\* tag; with any other tag, intValue = 0.
DataValue_copy(other) ==
    CASE other.type = TYPE_STRING  -> [type |-> TYPE_STRING, stringValue |-> other.stringValue]
      [] other.type = TYPE_INTEGER -> [type |-> TYPE_INTEGER, intValue |-> other.intValue]
      [] other.type = TYPE_FLOAT   -> [type |-> TYPE_FLOAT, floatValue |-> other.floatValue]
      [] OTHER                     -> [type |-> other.type, intValue |-> 0]

\* A variant of operator= that stores the member and leaves the tag of the
\* destination as it was.
DataValue_assign_keepsTag(self, other, same) ==
    IF same THEN self
    ELSE CASE other.type = TYPE_STRING  -> [type |-> self.type, stringValue |-> other.stringValue]
           [] other.type = TYPE_INTEGER -> [type |-> self.type, intValue |-> other.intValue]
           [] other.type = TYPE_FLOAT   -> [type |-> self.type, floatValue |-> other.floatValue]
           [] OTHER                     -> [type |-> self.type]

\* DataValue::operator=(other) on the value self; same: this == &other.  The
\* old value is destroyed, then the tag and the member of the tag are stored.
DataValue_assign(self, other, same) ==
    IF same THEN self
    ELSE CASE other.type = TYPE_STRING  -> [type |-> TYPE_STRING, stringValue |-> other.stringValue]
           [] other.type = TYPE_INTEGER -> [type |-> TYPE_INTEGER, intValue |-> other.intValue]
           [] other.type = TYPE_FLOAT   -> [type |-> TYPE_FLOAT, floatValue |-> other.floatValue]
           [] OTHER                     -> [type |-> other.type]

(***************************************************************************)
(* std::map<string, DataValue>: keys are unique and iteration is in        *)
(* ascending key order (std::less<std::string>: byte-wise lexicographic,   *)
(* a proper prefix first).  A map is a function from its keys to values.   *)
(***************************************************************************)
RECURSIVE StrLess(_, _)
StrLess(a, b) ==
    IF b = << >> THEN FALSE
    ELSE IF a = << >> THEN TRUE
    ELSE IF a[1] # b[1] THEN a[1] < b[1]
    ELSE StrLess(Tail(a), Tail(b))

EmptyMap == << >>

\* A variant that takes the greatest key: iteration in descending order.
MinKey_greatest(S) == CHOOSE k \in S : \A o \in S \ {k} : StrLess(o, k)

\* The smallest key of a non-empty set of keys.
MinKey(S) == CHOOSE k \in S : \A o \in S \ {k} : StrLess(k, o)

\* The keys of a map in iteration order.
RECURSIVE SortedKeys(_)
SortedKeys(S) ==
    IF S = {} THEN << >>
    ELSE LET k == MinKey(S) IN << k >> \o SortedKeys(S \ {k})

\* entries[key] = value
MapPut(m, k, v) == [x \in (DOMAIN m) \cup {k} |-> IF x = k THEN v ELSE m[x]]

\* entries[key], where operator[] has inserted a default value if the key was
\* absent.
MapAt(m, k) == IF k \in DOMAIN m THEN m[k] ELSE DataValue_default

\* entries.insert(make_pair(key, value)): nothing when the key is present.
MapInsert(m, k, v) == IF k \in DOMAIN m THEN m ELSE MapPut(m, k, v)

(***************************************************************************)
(* Serialization (the bytes appended to the output stream).                *)
(***************************************************************************)
\* A variant that also writes the terminator of c_str().
serializeString_terminated(value) == U32Bytes(Len(value)) \o value \o << 0 >>

\* serializeString: 4-byte length, then the bytes.
serializeString(value) == U32Bytes(Len(value)) \o value

\* DataValue::serialize: the tag byte, then the payload of the tag.
DataValue_serialize(v) ==
    << v.type >> \o
    CASE v.type = TYPE_STRING  -> serializeString(v.stringValue)
      [] v.type = TYPE_INTEGER -> Int32Bytes(v.intValue)
      [] v.type = TYPE_FLOAT   -> v.floatValue
      [] OTHER            -> << >>

\* The loop of DataObject::serialize over the entries in map order.
RECURSIVE serializeEntries(_, _)
serializeEntries(entries, keys) ==
    IF keys = << >> THEN << >>
    ELSE serializeString(Head(keys)) \o DataValue_serialize(entries[Head(keys)])
         \o serializeEntries(entries, Tail(keys))

\* DataObject::serialize: id, entry count, then every entry.
DataObject_serialize(object) ==
    U32Bytes(object.id) \o U32Bytes(Cardinality(DOMAIN object.entries))
    \o serializeEntries(object.entries, SortedKeys(DOMAIN object.entries))

\* The loop of DataObjectCollection::save over the objects.
RECURSIVE serializeObjects(_)
serializeObjects(objs) ==
    IF objs = << >> THEN << >>
    ELSE DataObject_serialize(Head(objs)) \o serializeObjects(Tail(objs))

\* Everything a save that completes writes: nextId, object count, objects.
SaveBytes(nid, objs) ==
    U32Bytes(nid) \o U32Bytes(Len(objs)) \o serializeObjects(objs)

(***************************************************************************)
(* Deserialization.  An input stream is the bytes of the file, the number  *)
(* of bytes consumed and the failbit.                                      *)
(*                                                                         *)
(* A value that is used several times is bound once, as the element x of a *)
(* one-element set: Only({ e(x) : x \in {v} }) is e(v).                    *)
(***************************************************************************)
Only(S) == CHOOSE x \in S : TRUE

OpenStream(bytes) == [buf |-> bytes, pos |-> 0, fail |-> FALSE]

\* istream::read(dst, n), where the destination holds old before the call.
\* On a stream that has already failed nothing is read.  When fewer than n
\* bytes are left, those bytes are stored and the failbit is set.  dst is the
\* destination afterwards: the bytes stored, then what it held before in the
\* places the read did not reach.
read(s, n, old) ==
    IF s.fail
    THEN [s |-> s, dst |-> old]
    ELSE IF s.pos + n <= Len(s.buf)
    THEN [s |-> [s EXCEPT !.pos = s.pos + n],
          dst |-> SubSeq(s.buf, s.pos + 1, s.pos + n)]
    ELSE [s |-> [s EXCEPT !.pos = Len(s.buf), !.fail = TRUE],
          dst |-> SubSeq(s.buf, s.pos + 1, Len(s.buf))
                  \o SubSeq(old, Len(s.buf) - s.pos + 1, Len(old))]

\* What an uninitialized uint32_t local may hold when a read leaves it
\* untouched: zero or not zero.  (A large value makes resize or reserve
\* throw, which ends load like the failbit check that follows does.)
UninitWords == { U32Bytes(0), U32Bytes(1) }

\* std::string::resize(n) on an empty string: n zero bytes.
Zeros(n) == [i \in 1..n |-> 0]

\* deserializeString: the length is read into an uninitialized local (junk),
\* the string is resized to it and the bytes are read over it.
deserializeString(s, junk) ==
    Only({ read(r1.s, BytesU32(r1.dst), Zeros(BytesU32(r1.dst)))
           : r1 \in { read(s, 4, junk) } })

\* A variant that reads a value with any other tag as an INTEGER.
DataValue_payload_lenient(r1, junk) ==
    CASE r1.dst[1] = TYPE_STRING ->
           Only({ [s |-> d.s, value |-> DataValue_string(d.dst), thrown |-> FALSE]
                  : d \in { deserializeString(r1.s, junk) } })
      [] r1.dst[1] = TYPE_FLOAT ->
           Only({ [s |-> r2.s, value |-> DataValue_float(r2.dst), thrown |-> FALSE]
                  : r2 \in { read(r1.s, 4, Int32Bytes(0)) } })
      [] OTHER ->
           Only({ [s |-> r2.s, value |-> DataValue_int(BytesInt32(r2.dst)),
                   thrown |-> FALSE]
                  : r2 \in { read(r1.s, 4, Int32Bytes(0)) } })

\* The payload of DataValue::deserialize, r1 being the read of the tag byte.
DataValue_payload(r1, junk) ==
    CASE r1.dst[1] = TYPE_STRING ->
           Only({ [s |-> d.s, value |-> DataValue_string(d.dst), thrown |-> FALSE]
                  : d \in { deserializeString(r1.s, junk) } })
      [] r1.dst[1] = TYPE_INTEGER ->
           Only({ [s |-> r2.s, value |-> DataValue_int(BytesInt32(r2.dst)),
                   thrown |-> FALSE]
                  : r2 \in { read(r1.s, 4, Int32Bytes(0)) } })
      [] r1.dst[1] = TYPE_FLOAT ->
           Only({ [s |-> r2.s, value |-> DataValue_float(r2.dst), thrown |-> FALSE]
                  : r2 \in { read(r1.s, 4, Int32Bytes(0)) } })
      [] OTHER ->
           [s |-> r1.s, value |-> [type |-> r1.dst[1]], thrown |-> TRUE]

\* DataValue::deserialize on a default-constructed value (INTEGER zero): the
\* tag byte, then the payload of that tag; any other tag throws.
DataValue_deserialize(s, junk) ==
    DataValue_payload(read(s, 1, << TYPE_INTEGER >>), junk)

\* The loop of DataObject::deserialize: n more entries to read into entries.
\* A failed stream after an entry throws before the entry is stored.
RECURSIVE deserializeEntries(_, _, _, _)
deserializeEntries(s, entries, n, junk) ==
    IF n = 0
    THEN [s |-> s, entries |-> entries, thrown |-> FALSE]
    ELSE Only({ Only({ IF e.thrown \/ e.s.fail
                       THEN [s |-> e.s, entries |-> entries, thrown |-> TRUE]
                       ELSE deserializeEntries(
                                e.s,
                                MapPut(entries, k.dst,
                                       DataValue_assign(MapAt(entries, k.dst),
                                                        e.value, FALSE)),
                                n - 1, junk)
                       : e \in { DataValue_deserialize(k.s, junk) } })
                : k \in { deserializeString(s, junk) } })

\* DataObject::deserialize on a default-constructed object (id 0, no entries):
\* id, entry count (an uninitialized local, not checked), then the entries.
DataObject_deserialize(s, junk) ==
    Only({ Only({ Only({ [s |-> es.s,
                          object |-> [id |-> BytesU32(r1.dst), entries |-> es.entries],
                          thrown |-> es.thrown]
                         : es \in { deserializeEntries(r2.s, EmptyMap,
                                                       BytesU32(r2.dst), junk) } })
                  : r2 \in { read(r1.s, 4, junk) } })
           : r1 \in { read(s, 4, U32Bytes(0)) } })

\* The loop of DataObjectCollection::load: n more objects to read and push
\* at the back of objs.  It stops at the first throw.
RECURSIVE loadObjects(_, _, _, _)
loadObjects(s, objs, n, junk) ==
    IF n = 0
    THEN [objects |-> objs, thrown |-> FALSE]
    ELSE Only({ IF d.thrown \/ d.s.fail
                THEN [objects |-> objs, thrown |-> TRUE]
                ELSE loadObjects(d.s, Append(objs, d.object), n - 1, junk)
                : d \in { DataObject_deserialize(s, junk) } })

(***************************************************************************)
(* State.                                                                  *)
(***************************************************************************)
VARIABLES
    nextId,     \* DataObjectCollection::nextId
    objects,    \* DataObjectCollection::objects, a sequence of [id, entries]
    file,       \* the file at path: whether it exists, and its bytes
    last,       \* the call that returned last: operation, argument, outcome
    issued,     \* history: the ids createObject returned since construction
    reissued    \* history: createObject returned an id it had returned before

vars == << nextId, objects, file, last, issued, reissued >>

NoFile == [exists |-> FALSE, bytes |-> << >>]

FileOf(bytes) == [exists |-> TRUE, bytes |-> bytes]

\* The null pointer, as an index into objects.
nullptr == 0

\* A pointer to x, and the null pointer, where the pointee is not an object of
\* the vector: a DataValue* into the entries of an object is PointerTo(key).
PointerTo(x) == << x >>

NullPointer == << >>

\* DataValue::asString, asInt, asFloat: nullptr unless the tag is the one
\* asked for, else the address of that member of the union.
asString(v) == IF v.type # TYPE_STRING THEN NullPointer ELSE PointerTo("stringValue")

asInt(v) == IF v.type # TYPE_INTEGER THEN NullPointer ELSE PointerTo("intValue")

asFloat(v) == IF v.type # TYPE_FLOAT THEN NullPointer ELSE PointerTo("floatValue")

Returned(op, arg, result, ret) ==
    [op |-> op, arg |-> arg, result |-> result, ret |-> ret]

\* DataObject::DataObject() with the id createObject assigns.
DataObject_new(id) == [id |-> id, entries |-> EmptyMap]

\* The index of the first object with the id, or nullptr: the scan of
\* getObject and deleteObject.
FindObject(objs, id) ==
    IF \E i \in 1..Len(objs) : objs[i].id = id
    THEN CHOOSE i \in 1..Len(objs) :
            objs[i].id = id /\ \A j \in 1..(i - 1) : objs[j].id # id
    ELSE nullptr

\* A variant that erases up to the end: erase(begin() + i - 1, end()).
EraseAt_toEnd(objs, i) == SubSeq(objs, 1, i - 1)

\* vector::erase(begin() + i - 1)
EraseAt(objs, i) == SubSeq(objs, 1, i - 1) \o SubSeq(objs, i + 1, Len(objs))

(***************************************************************************)
(* DataObjectCollection.                                                   *)
(***************************************************************************)
\* DataObjectCollection::DataObjectCollection(path): the state of Init.
Init ==
    /\ nextId = 1
    /\ objects = << >>
    /\ file = NoFile
    /\ last = Returned("construct", 0, "ok", 0)
    /\ issued = {}
    /\ reissued = FALSE

\* A new collection is constructed for the same path (the old one is gone).
construct ==
    /\ nextId' = 1
    /\ objects' = << >>
    /\ last' = Returned("construct", 0, "ok", 0)
    /\ issued' = {}
    /\ reissued' = FALSE
    /\ UNCHANGED file

\* DataObjectCollection::createObject.  The pointer returned is &objects.back().
createObject ==
    /\ Len(objects) < MaxObjects
    /\ nextId' = (nextId + 1) % IdSpace
    /\ objects' = Append(objects, DataObject_new(nextId))
    /\ last' = Returned("createObject", nextId, "ok", Len(objects) + 1)
    /\ issued' = issued \cup {nextId}
    /\ reissued' = (reissued \/ nextId \in issued)
    /\ UNCHANGED file

\* A variant that saves the collection after the deletion.
deleteObject_saves(id) ==
    /\ LET i == FindObject(objects, id)
       IN  objects' = IF i = nullptr THEN objects ELSE EraseAt(objects, i)
    /\ last' = Returned("deleteObject", id, "ok",
                        IF FindObject(objects, id) = nullptr THEN 0 ELSE 1)
    /\ file' = FileOf(SaveBytes(nextId, objects'))
    /\ UNCHANGED << nextId, issued, reissued >>

\* DataObjectCollection::deleteObject(id)
deleteObject(id) ==
    /\ LET i == FindObject(objects, id)
       IN  objects' = IF i = nullptr THEN objects ELSE EraseAt(objects, i)
    /\ last' = Returned("deleteObject", id, "ok",
                        IF FindObject(objects, id) = nullptr THEN 0 ELSE 1)
    /\ UNCHANGED << nextId, file, issued, reissued >>

\* A variant that returns the object at the back when there is a match.
getObject_back(id) ==
    /\ last' = Returned("getObject", id, "ok",
                        IF FindObject(objects, id) = nullptr THEN nullptr
                        ELSE Len(objects))
    /\ UNCHANGED << nextId, objects, file, issued, reissued >>

\* DataObjectCollection::getObject(id)
getObject(id) ==
    /\ last' = Returned("getObject", id, "ok", FindObject(objects, id))
    /\ UNCHANGED << nextId, objects, file, issued, reissued >>

\* DataObjectCollection::getObjectCount
getObjectCount ==
    /\ last' = Returned("getObjectCount", 0, "ok", Len(objects))
    /\ UNCHANGED << nextId, objects, file, issued, reissued >>

\* A variant with the insert alone, without entries[key] = value.
setEntry_insertOnly(i, key, value) ==
    /\ i \in 1..Len(objects)
    /\ objects' = [objects EXCEPT ![i].entries =
                      MapInsert(@, key, DataValue_copy(value))]
    /\ last' = Returned("setEntry", << i, key, value >>, "ok", 0)
    /\ UNCHANGED << nextId, file, issued, reissued >>

\* DataObject::setEntry(key, value) on the object at objects[i].  The
\* parameter is a copy of the caller's value; it is assigned to entries[key],
\* and the insert that follows finds the key present.
setEntry(i, key, value) ==
    /\ i \in 1..Len(objects)
    /\ objects' = [objects EXCEPT ![i].entries =
                      MapInsert(MapPut(@, key,
                                       DataValue_assign(MapAt(@, key),
                                                        DataValue_copy(value), FALSE)),
                                key, DataValue_copy(value))]
    /\ last' = Returned("setEntry", << i, key, value >>, "ok", 0)
    /\ UNCHANGED << nextId, file, issued, reissued >>

\* A variant that looks the key up with find() and returns nullptr when the
\* key is absent.
getEntry_find(i, key) ==
    /\ i \in 1..Len(objects)
    /\ last' = Returned("getEntry", << i, key >>, "ok",
                        IF key \in DOMAIN objects[i].entries
                        THEN PointerTo(key) ELSE NullPointer)
    /\ UNCHANGED << nextId, objects, file, issued, reissued >>

\* DataObject::getEntry(key) on the object at objects[i]: map::operator[]
\* inserts a default DataValue for a key that is absent; the pointer returned
\* is to the value stored under the key.
getEntry(i, key) ==
    /\ i \in 1..Len(objects)
    /\ objects' = [objects EXCEPT ![i].entries =
                      IF key \in DOMAIN @ THEN @ ELSE MapPut(@, key, DataValue_default)]
    /\ last' = Returned("getEntry", << i, key >>, "ok", PointerTo(key))
    /\ UNCHANGED << nextId, file, issued, reissued >>

\* A variant of saveResult that opens the file without truncating it.
saveResult_noTruncate(nid, objs, f, opened, written) ==
    IF ~opened
    THEN [file |-> f, result |-> "throw"]
    ELSE Only({ [file |-> FileOf(SubSeq(bytes, 1, written)
                                 \o SubSeq(f.bytes, written + 1, Len(f.bytes))),
                 result |-> IF written < Len(bytes) THEN "throw" ELSE "ok"]
                : bytes \in { SaveBytes(nid, objs) } })

\* DataObjectCollection::save.  opened: the ofstream could be opened (which
\* truncates the file).  written: the number of bytes that reach the file;
\* fewer than all of them means a write failed, which the failbit check after
\* it turns into an exception.  The stream is taken as unbuffered.
saveResult(nid, objs, f, opened, written) ==
    IF ~opened
    THEN [file |-> f, result |-> "throw"]
    ELSE Only({ [file |-> FileOf(SubSeq(bytes, 1, written)),
                 result |-> IF written < Len(bytes) THEN "throw" ELSE "ok"]
                : bytes \in { SaveBytes(nid, objs) } })

save(opened, written) ==
    /\ written \in 0..Len(SaveBytes(nextId, objects))
    /\ \E r \in { saveResult(nextId, objects, file, opened, written) } :
           /\ file' = r.file
           /\ last' = Returned("save", IF opened THEN 1 ELSE 0, r.result, 0)
    /\ UNCHANGED << nextId, objects, issued, reissued >>

\* A variant of loadFile that reads into temporaries and stores nextId and
\* the objects only when nothing was thrown.
loadFile_transactional(nid, objs, bytes, junk) ==
    Only({ IF r1.s.fail
           THEN [nextId |-> nid, objects |-> objs, result |-> "throw"]
           ELSE Only({ Only({ IF lo.thrown
                              THEN [nextId |-> nid, objects |-> objs,
                                    result |-> "throw"]
                              ELSE [nextId |-> BytesU32(r1.dst),
                                    objects |-> lo.objects, result |-> "ok"]
                              : lo \in { loadObjects(r2.s, objs,
                                                     BytesU32(r2.dst), junk) } })
                       : r2 \in { read(r1.s, 4, junk) } })
           : r1 \in { read(OpenStream(bytes), 4, U32Bytes(nid)) } })

\* DataObjectCollection::load.  opened: the ifstream could be opened.  junk:
\* what the uninitialized locals hold.  loadFile is load from the opened
\* stream on: nextId is read over the member, then the object count (not
\* checked), then the objects are pushed at the back of the vector.
loadFile(nid, objs, bytes, junk) ==
    Only({ IF r1.s.fail
           THEN [nextId |-> BytesU32(r1.dst), objects |-> objs, result |-> "throw"]
           ELSE Only({ Only({ [nextId |-> BytesU32(r1.dst), objects |-> lo.objects,
                               result |-> IF lo.thrown THEN "throw" ELSE "ok"]
                              : lo \in { loadObjects(r2.s, objs,
                                                     BytesU32(r2.dst), junk) } })
                       : r2 \in { read(r1.s, 4, junk) } })
           : r1 \in { read(OpenStream(bytes), 4, U32Bytes(nid)) } })

\* A variant that applies the default state when there is no file.
loadResult_resetsOnMissing(nid, objs, f, opened, junk) ==
    IF ~f.exists
    THEN [nextId |-> 1, objects |-> << >>, result |-> "ok"]
    ELSE IF ~opened
    THEN [nextId |-> nid, objects |-> objs, result |-> "throw"]
    ELSE loadFile(nid, objs, f.bytes, junk)

\* load as a function of the members, the file and the environment.
loadResult(nid, objs, f, opened, junk) ==
    IF ~f.exists
    THEN [nextId |-> nid, objects |-> objs, result |-> "ok"]
    ELSE IF ~opened
    THEN [nextId |-> nid, objects |-> objs, result |-> "throw"]
    ELSE loadFile(nid, objs, f.bytes, junk)

load(opened, junk) ==
    \E r \in { loadResult(nextId, objects, file, opened, junk) } :
        /\ Len(r.objects) <= MaxObjects
        /\ nextId' = r.nextId
        /\ objects' = r.objects
        /\ last' = Returned("load", IF file.exists THEN 1 ELSE 0, r.result, 0)
        /\ UNCHANGED << file, issued, reissued >>

(***************************************************************************)
(* Specifications.                                                         *)
(***************************************************************************)
Ids == 0..(IdSpace - 1)

\* The keys and values the callers store: "ac" sorts before "b"; an integer
\* and a text.
Keys == { << 97, 99 >>, << 98 >> }

Values == { DataValue_int(0), DataValue_string(<< 65, 66 >>) }

\* The counter has not reached the top of its range: createObject does not
\* wrap.  The specifications other than SpecIds stay below the wrap.
BelowWrap == nextId < IdSpace - 1

\* The collection in memory, records without entries, with the counter
\* running through its whole range.
NextIds ==
    \/ createObject
    \/ \E id \in Ids : deleteObject(id)
    \/ \E id \in Ids : getObject(id)
    \/ getObjectCount

SpecIds == Init /\ [][NextIds]_vars

\* The collection in memory, records with entries.
NextMem ==
    \/ BelowWrap /\ createObject
    \/ \E id \in Ids : deleteObject(id)
    \/ \E id \in Ids : getObject(id)
    \/ getObjectCount
    \/ \E i \in 1..MaxObjects, key \in Keys, value \in Values : setEntry(i, key, value)
    \/ \E i \in 1..MaxObjects, key \in Keys : getEntry(i, key)

SpecMem == Init /\ [][NextMem]_vars

\* The collection and its file, records without entries; opening and
\* writing the file succeed.
Next ==
    \/ construct
    \/ BelowWrap /\ createObject
    \/ \E id \in Ids : deleteObject(id)
    \/ save(TRUE, Len(SaveBytes(nextId, objects)))
    \/ \E junk \in UninitWords : load(TRUE, junk)

Spec == Init /\ [][Next]_vars

\* Every operation, on at most MaxEntryObjects objects at a time; opening and
\* writing the file succeed.
NextAll ==
    \/ construct
    \/ BelowWrap /\ Len(objects) < MaxEntryObjects /\ createObject
    \/ \E id \in Ids : deleteObject(id)
    \/ \E id \in Ids : getObject(id)
    \/ getObjectCount
    \/ \E i \in 1..MaxEntryObjects, key \in Keys, value \in Values :
          setEntry(i, key, value)
    \/ \E i \in 1..MaxEntryObjects, key \in Keys : getEntry(i, key)
    \/ save(TRUE, Len(SaveBytes(nextId, objects)))
    \/ \E junk \in UninitWords :
          load(TRUE, junk) /\ Len(objects') <= MaxEntryObjects

SpecAll == Init /\ [][NextAll]_vars

\* Records with entries of every type of value, and their file, on at most
\* MaxEntryObjects objects at a time: -2, the empty text, "AB" and 1.5f
\* (3FC00000, as its bytes in memory).
RichValues ==
    { DataValue_int(-2), DataValue_string(<< >>), DataValue_string(<< 65, 66 >>),
      DataValue_float(<< 0, 0, 192, 63 >>) }

NextEntries ==
    \/ construct
    \/ BelowWrap /\ Len(objects) < MaxEntryObjects /\ createObject
    \/ \E i \in 1..MaxEntryObjects, key \in Keys, value \in RichValues :
          setEntry(i, key, value)
    \/ save(TRUE, Len(SaveBytes(nextId, objects)))
    \/ \E junk \in UninitWords :
          load(TRUE, junk) /\ Len(objects') <= MaxEntryObjects

SpecEntries == Init /\ [][NextEntries]_vars

\* The file may fail to open and a write may fail at any byte: at most
\* MaxEntryObjects objects, one key.
FaultKeys == { << 97, 99 >> }

NextFaults ==
    \/ construct
    \/ BelowWrap /\ Len(objects) < MaxEntryObjects /\ createObject
    \/ \E i \in 1..MaxEntryObjects, key \in FaultKeys, value \in Values :
          setEntry(i, key, value)
    \/ \E opened \in BOOLEAN, written \in 0..Len(SaveBytes(nextId, objects)) :
          save(opened, written)
    \/ \E opened \in BOOLEAN, junk \in UninitWords :
          load(opened, junk) /\ Len(objects') <= MaxEntryObjects

SpecFaults == Init /\ [][NextFaults]_vars

\* Records with one entry whose value runs through the texts and the
\* integers at the ends of their ranges, and a float: the empty text, "AB",
\* a text of one zero byte; 0, -1, the least and the greatest int32_t; 1.5f.
CodecValues ==
    { DataValue_string(<< >>), DataValue_string(<< 65, 66 >>), DataValue_string(<< 0 >>),
      DataValue_int(0), DataValue_int(-1), DataValue_int(-2147483647 - 1),
      DataValue_int(2147483647), DataValue_float(<< 0, 0, 192, 63 >>) }

NextValues ==
    \/ construct
    \/ BelowWrap /\ Len(objects) < MaxEntryObjects /\ createObject
    \/ \E i \in 1..MaxEntryObjects, key \in FaultKeys, value \in CodecValues :
          setEntry(i, key, value)
    \/ save(TRUE, Len(SaveBytes(nextId, objects)))
    \/ \E junk \in UninitWords :
          load(TRUE, junk) /\ Len(objects') <= MaxEntryObjects

SpecValues == Init /\ [][NextValues]_vars

\* Records with entries under two keys, set and overwritten in any order,
\* and the file save writes from them.
NextSave ==
    \/ BelowWrap /\ Len(objects) < MaxEntryObjects /\ createObject
    \/ \E i \in 1..MaxEntryObjects, key \in Keys, value \in Values :
          setEntry(i, key, value)
    \/ save(TRUE, Len(SaveBytes(nextId, objects)))

SpecSave == Init /\ [][NextSave]_vars

\* A file that something other than save put at path: well formed up to its
\* last record, whose one entry "ac" has the tag byte t and four zero bytes
\* after it (the INTEGER or FLOAT zero, or the length of the empty STRING).
\* The records before it are good.
ForeignTags == 0..255

ForeignRecord(id, t) ==
    U32Bytes(id) \o U32Bytes(1) \o serializeString(<< 97, 99 >>)
    \o << t >> \o Int32Bytes(0)

GoodRecords ==
    { << >>,
      << [id |-> 1, entries |-> (<< 97, 99 >> :> DataValue_string(<< 65, 66 >>))] >> }

ForeignFile(good, t) ==
    U32Bytes(Len(good) + 2) \o U32Bytes(Len(good) + 1)
    \o serializeObjects(good) \o ForeignRecord(Len(good) + 1, t)

\* A collection is constructed for a path that holds a foreign file.
InitForeign ==
    /\ nextId = 1
    /\ objects = << >>
    /\ file \in { FileOf(ForeignFile(good, t)) : good \in GoodRecords, t \in ForeignTags }
    /\ last = Returned("construct", 0, "ok", 0)
    /\ issued = {}
    /\ reissued = FALSE

NextForeign ==
    \/ construct
    \/ BelowWrap /\ Len(objects) < MaxEntryObjects /\ createObject
    \/ \E junk \in UninitWords : load(TRUE, junk)

SpecForeign == InitForeign /\ [][NextForeign]_vars

\* A file at path that makes load fail: the file a save of two records with
\* nextId 3 leaves when a write fails after n bytes (or completes), or a
\* foreign file whose last record holds the tag byte 255.
SavedRecords ==
    << [id |-> 1, entries |-> (<< 97, 99 >> :> DataValue_string(<< 65, 66 >>))],
       [id |-> 2, entries |-> (<< 98 >> :> DataValue_int(-2))] >>

SavedFile == SaveBytes(3, SavedRecords)

InitAborted ==
    /\ nextId = 1
    /\ objects = << >>
    /\ file \in { FileOf(SubSeq(SavedFile, 1, n)) : n \in 0..Len(SavedFile) }
                 \cup { FileOf(ForeignFile(good, 255)) : good \in GoodRecords }
    /\ last = Returned("construct", 0, "ok", 0)
    /\ issued = {}
    /\ reissued = FALSE

NextAborted ==
    \/ construct
    \/ BelowWrap /\ Len(objects) < MaxEntryObjects /\ createObject
    \/ \E junk \in UninitWords : load(TRUE, junk)

SpecAborted == InitAborted /\ [][NextAborted]_vars

(***************************************************************************)
(* What a collection constructed afresh for the same path holds after      *)
(* load, and the files that end early.                                     *)
(***************************************************************************)
FreshLoad(f, junk) == loadResult(1, << >>, f, TRUE, junk)

\* The bytes are everything a save that completed wrote: they decode without
\* a failure and encode back to themselves.
CompleteFile(bytes) ==
    \E r \in { FreshLoad(FileOf(bytes), U32Bytes(0)) } :
        r.result = "ok" /\ SaveBytes(r.nextId, r.objects) = bytes

IsProperPrefix(a, b) == Len(a) < Len(b) /\ a = SubSeq(b, 1, Len(a))

IdsOf(objs) == { objs[i].id : i \in 1..Len(objs) }

C2_IdMonotonicity ==
    /\ ~reissued
    /\ \A id \in issued : id < nextId

(***************************************************************************)
(* C3: in every state reached by createObject, deleteObject, save and      *)
(* load, the ids in the sequence are pairwise distinct and nextId is       *)
(* greater than each of them.                                              *)
(***************************************************************************)
C3_IdsDistinctBelowNextId ==
    /\ \A i, j \in 1..Len(objects) : i # j => objects[i].id # objects[j].id
    /\ \A i \in 1..Len(objects) : objects[i].id < nextId

(***************************************************************************)
(* C4: when the file exists and load completes, the sequence is exactly    *)
(* the records of the file, in file order, and nextId is the file's        *)
(* nextId, whatever the collection held before.                            *)
(***************************************************************************)
C4_LoadOverrides ==
    (last.op = "load" /\ last.arg = 1 /\ last.result = "ok")
        => \A junk \in UninitWords :
              /\ objects = FreshLoad(file, junk).objects
              /\ nextId = FreshLoad(file, junk).nextId

(***************************************************************************)
(* C5, as claimed: a save that fails leaves a file that was complete as it *)
(* was.                                                                    *)
(***************************************************************************)
C5_FailedSaveKeepsFile ==
    [][ (last'.op = "save" /\ last'.result = "throw"
         /\ file.exists /\ CompleteFile(file.bytes))
          => file' = file ]_vars

(***************************************************************************)
(* C5, amended: a save that fails to open the file leaves the file as it   *)
(* was; a save that fails in a write leaves the file truncated to the      *)
(* bytes written before the failure, a proper prefix of the encoding of    *)
(* the collection's state.                                                 *)
(***************************************************************************)
C5_FailedSaveLeavesPrefix ==
    [][ (last'.op = "save" /\ last'.result = "throw")
          => IF last'.arg = 0
             THEN file' = file
             ELSE /\ file'.exists
                  /\ IsProperPrefix(file'.bytes, SaveBytes(nextId, objects)) ]_vars

C5_Witness ==
    /\ last.op = "save" /\ last.result = "throw" /\ last.arg = 1
    /\ Len(file.bytes) > 8
    /\ Len(objects) > 0

(***************************************************************************)
(* C6: when deleteObject has removed a record and returned, the file at    *)
(* path holds the state of the collection after the deletion.              *)
(***************************************************************************)
C6_DeleteSavesToDisk ==
    (last.op = "deleteObject" /\ last.ret = 1)
        => file = FileOf(SaveBytes(nextId, objects))

C10_TruncatedLoadAborts ==
    (last.op = "load" /\ file.exists /\ ~CompleteFile(file.bytes))
        => last.result = "throw"

C12_GetEntryNullWhenAbsent ==
    [][ last'.op = "getEntry"
          => last'.ret = IF last'.arg[2] \in DOMAIN objects[last'.arg[1]].entries
                         THEN PointerTo(last'.arg[2]) ELSE NullPointer ]_vars

(***************************************************************************)
(* C13: createObject takes id = nextId, increments nextId by one, appends  *)
(* a record with that id and no entries at the back, leaves the records    *)
(* held unchanged and returns a pointer to the stored record: getObject of *)
(* that id right after the call returns the same record, and the count has *)
(* grown by one.                                                           *)
(***************************************************************************)
C13_CreateObject ==
    [][ last'.op = "createObject"
          => /\ last'.arg = nextId
             /\ nextId' = nextId + 1
             /\ objects' = Append(objects, [id |-> nextId, entries |-> EmptyMap])
             /\ Len(objects') = Len(objects) + 1
             /\ last'.ret = Len(objects')
             /\ FindObject(objects', last'.arg) = last'.ret ]_vars

(***************************************************************************)
(* C14: getObject(id) returns a pointer to a record whose id is id when    *)
(* the sequence holds one and nullptr otherwise, and changes neither       *)
(* nextId, nor the sequence, nor a record.                                 *)
(***************************************************************************)
C14_GetObject ==
    [][ last'.op = "getObject"
          => /\ nextId' = nextId
             /\ objects' = objects
             /\ IF last'.arg \in IdsOf(objects)
                THEN /\ last'.ret \in 1..Len(objects)
                     /\ objects[last'.ret].id = last'.arg
                ELSE last'.ret = nullptr ]_vars

C14_Witness ==
    /\ last.op = "getObject"
    /\ Len(objects) = 2
    /\ last.ret = 2
    /\ DOMAIN objects[2].entries # {}

(***************************************************************************)
(* C15: setEntry(key, value) is an upsert: afterwards the record maps key  *)
(* to value, every other key keeps its value, the number of entries grows  *)
(* by one only when the key was absent, and the id is unchanged (as are    *)
(* the other records and nextId).                                          *)
(***************************************************************************)
C15_SetEntryUpsert ==
    [][ last'.op = "setEntry"
          => \E i \in { last'.arg[1] }, key \in { last'.arg[2] },
                value \in { last'.arg[3] } :
               /\ objects'[i].entries[key] = value
               /\ DOMAIN objects'[i].entries = DOMAIN objects[i].entries \cup {key}
               /\ \A k \in DOMAIN objects[i].entries \ {key} :
                     objects'[i].entries[k] = objects[i].entries[k]
               /\ Cardinality(DOMAIN objects'[i].entries)
                    = Cardinality(DOMAIN objects[i].entries)
                      + (IF key \in DOMAIN objects[i].entries THEN 0 ELSE 1)
               /\ objects'[i].id = objects[i].id
               /\ Len(objects') = Len(objects)
               /\ \A j \in 1..Len(objects) : j # i => objects'[j] = objects[j]
               /\ nextId' = nextId ]_vars

C15_Witness ==
    /\ last.op = "setEntry"
    /\ Len(objects) = 2
    /\ last.arg = << 1, << 98 >>, DataValue_string(<< 65, 66 >>) >>
    /\ objects[1].entries
         = (<< 97, 99 >> :> DataValue_int(0)) @@ (<< 98 >> :> DataValue_string(<< 65, 66 >>))
    /\ DOMAIN objects[2].entries = { << 98 >> }

(***************************************************************************)
(* C16: no value of a record of the collection has a tag other than        *)
(* STRING, INTEGER, FLOAT; when load meets another tag byte in the file it *)
(* throws, and the record with that entry is not added: the sequence is    *)
(* the one before the call and the records of the file before that one.    *)
(***************************************************************************)
C16_BadTagAborts ==
    [][ /\ \A i \in 1..Len(objects') : \A k \in DOMAIN objects'[i].entries :
              objects'[i].entries[k].type \in { TYPE_STRING, TYPE_INTEGER, TYPE_FLOAT }
        /\ last'.op = "load"
              => \A good \in GoodRecords :
                   \A t \in { file.bytes[Len(file.bytes) - 4] }
                              \ { TYPE_STRING, TYPE_INTEGER, TYPE_FLOAT } :
                      file.bytes = ForeignFile(good, t)
                          => /\ last'.result = "throw"
                             /\ objects' = objects \o good ]_vars

C16_Witness ==
    /\ last.op = "load" /\ last.result = "throw"
    /\ \E good \in GoodRecords : Len(good) = 1 /\ file.bytes = ForeignFile(good, 255)
    /\ Len(objects) = 2
    /\ DOMAIN objects[1].entries = {}
    /\ DOMAIN objects[2].entries # {}

(***************************************************************************)
(* C17 (tag and payload): of asString, asInt, asFloat exactly the one of   *)
(* the tag returns a pointer, to the member the value holds, and that      *)
(* member is the payload the value was built from; the other two return    *)
(* nullptr.  This holds of a default-constructed value, of a value built   *)
(* from a text, an integer or a float, of a copy, of the target of an      *)
(* assignment (also of a value to itself), and of the values decoded by    *)
(* load.                                                                   *)
(***************************************************************************)
Handles(v) == << asString(v), asInt(v), asFloat(v) >>

\* The pointers of a value with the tag, p being the one of the tag.
HandlesOf(tag, p) ==
    CASE tag = TYPE_STRING  -> << p, NullPointer, NullPointer >>
      [] tag = TYPE_INTEGER -> << NullPointer, p, NullPointer >>
      [] tag = TYPE_FLOAT   -> << NullPointer, NullPointer, p >>

\* Exactly the pointer of the tag is not null, and it points to a member the
\* value holds.
WellTagged(v) ==
    /\ v.type \in { TYPE_STRING, TYPE_INTEGER, TYPE_FLOAT }
    /\ \E member \in DOMAIN v \ { "type" } :
          Handles(v) = HandlesOf(v.type, PointerTo(member))

\* What the pointer of the tag points to.
Payload(v) == v[Only({ Handles(v)[j][1] : j \in { v.type + 1 } })]

\* v is well tagged and yields the payload and the tag of w.
YieldsSame(v, w) == WellTagged(v) /\ v.type = w.type /\ Payload(v) = Payload(w)

C17_TagPayload ==
    /\ WellTagged(DataValue_default)
    /\ Handles(DataValue_default) = HandlesOf(TYPE_INTEGER, PointerTo("intValue"))
    /\ Payload(DataValue_default) = 0
    /\ \A s \in { << >>, << 65, 66 >> } :
          /\ WellTagged(DataValue_string(s))
          /\ asString(DataValue_string(s)) # NullPointer
          /\ Payload(DataValue_string(s)) = s
    /\ \A n \in { -2, 0 } :
          /\ WellTagged(DataValue_int(n))
          /\ asInt(DataValue_int(n)) # NullPointer
          /\ Payload(DataValue_int(n)) = n
    /\ \A bits \in { << 0, 0, 192, 63 >> } :
          /\ WellTagged(DataValue_float(bits))
          /\ asFloat(DataValue_float(bits)) # NullPointer
          /\ Payload(DataValue_float(bits)) = bits
    /\ \A v \in CodecValues \cup { DataValue_default } :
          /\ YieldsSame(DataValue_copy(v), v)
          /\ YieldsSame(DataValue_assign(v, v, TRUE), v)
          /\ \A w \in CodecValues \cup { DataValue_default } :
                YieldsSame(DataValue_assign(w, v, FALSE), v)
    /\ \A i \in 1..Len(objects) : \A k \in DOMAIN objects[i].entries :
          WellTagged(objects[i].entries[k])
    /\ last.op = "setEntry"
          => YieldsSame(objects[last.arg[1]].entries[last.arg[2]], last.arg[3])

C17_Witness ==
    /\ last.op = "load" /\ last.result = "ok"
    /\ Len(objects) = 1
    /\ DOMAIN objects[1].entries = FaultKeys
    /\ asFloat(objects[1].entries[<< 97, 99 >>]) # NullPointer
    /\ asInt(objects[1].entries[<< 97, 99 >>]) = NullPointer

(***************************************************************************)
(* C18 (value round trip): for every text and every integer a record       *)
(* holds, DataValue::deserialize on the bytes DataValue::serialize writes, *)
(* whatever follows them in the stream, consumes exactly those bytes (the  *)
(* tag byte, 4 bytes of length and the text, or the tag byte and 4 bytes   *)
(* of payload), does not fail, and yields the same tag and payload.        *)
(***************************************************************************)
RoundTrips(v) ==
    \A rest \in { << >>, << 1, 0, 0, 0 >> } : \A junk \in UninitWords :
        \E bytes \in { DataValue_serialize(v) } :
            /\ Len(bytes) = 1 + 4 + (IF v.type = TYPE_STRING THEN Len(v.stringValue) ELSE 0)
            /\ DataValue_deserialize(OpenStream(bytes \o rest), junk)
                 = [s |-> [buf |-> bytes \o rest, pos |-> Len(bytes), fail |-> FALSE],
                    value |-> v, thrown |-> FALSE]

C18_ValueRoundTrip ==
    \A i \in 1..Len(objects) : \A k \in DOMAIN objects[i].entries :
        objects[i].entries[k].type \in { TYPE_STRING, TYPE_INTEGER }
            => RoundTrips(objects[i].entries[k])

C18_Witness ==
    /\ last.op = "load" /\ last.result = "ok"
    /\ Len(objects) = 1
    /\ DOMAIN objects[1].entries = FaultKeys
    /\ asInt(objects[1].entries[<< 97, 99 >>]) # NullPointer
    /\ objects[1].entries[<< 97, 99 >>].intValue < -2147483647

(***************************************************************************)
(* C19 (key-sorted encoding): the file of a save that completed is nextId, *)
(* the number of records and, for each record in sequence order, its id,   *)
(* its number of entries and its entries in ascending key order.  The file *)
(* is so determined by nextId and the key-to-value mappings of the records *)
(* alone: two collections that agree on them write the same bytes,         *)
(* whatever calls of setEntry built the mappings.                          *)
(***************************************************************************)
RECURSIVE Concat(_)
Concat(seqs) == IF seqs = << >> THEN << >> ELSE Head(seqs) \o Concat(Tail(seqs))

\* The keys in ascending order of std::less<std::string>.
KeysAscending(S) ==
    CHOOSE ks \in [1..Cardinality(S) -> S] :
        \A a, b \in 1..Cardinality(S) : a < b => StrLess(ks[a], ks[b])

RecordKeySorted(o) ==
    U32Bytes(o.id) \o U32Bytes(Cardinality(DOMAIN o.entries))
    \o Concat([j \in 1..Cardinality(DOMAIN o.entries) |->
                  serializeString(KeysAscending(DOMAIN o.entries)[j])
                  \o DataValue_serialize(o.entries[KeysAscending(DOMAIN o.entries)[j]])])

C19_KeySortedEncoding ==
    (last.op = "save" /\ last.result = "ok")
        => file.bytes = U32Bytes(nextId) \o U32Bytes(Len(objects))
                        \o Concat([i \in 1..Len(objects) |-> RecordKeySorted(objects[i])])

C19_Witness ==
    /\ last.op = "save" /\ last.result = "ok"
    /\ Len(objects) = 1
    /\ DOMAIN objects[1].entries = Keys
    /\ objects[1].entries[<< 97, 99 >>] = DataValue_string(<< 65, 66 >>)
    /\ objects[1].entries[<< 98 >>] = DataValue_int(0)

(***************************************************************************)
(* C20: from a just-constructed collection, after any createObject and     *)
(* deleteObject calls the records of the sequence are in strictly          *)
(* ascending order of id.                                                  *)
(***************************************************************************)
C20_AscendingIds ==
    \A i, j \in 1..Len(objects) : i < j => objects[i].id < objects[j].id

(***************************************************************************)
(* C21 (load is not transactional): when load throws after the 4 bytes of  *)
(* the file's nextId were read, nextId is the file's value and the         *)
(* sequence is the records held before the call followed by the records of *)
(* the file that lie whole before the point of failure; nothing is put     *)
(* back.                                                                   *)
(***************************************************************************)
\* The records of the file that lie whole within its bytes: for a file cut
\* short, the longest run of the saved records whose encoding fits; for a
\* foreign file, the good records before the one with the bad tag.
WholeRecords(bytes) ==
    IF \E good \in GoodRecords : bytes = ForeignFile(good, 255)
    THEN CHOOSE good \in GoodRecords : bytes = ForeignFile(good, 255)
    ELSE SubSeq(SavedRecords, 1,
                CHOOSE k \in 0..Len(SavedRecords) :
                   /\ k > 0 => 8 + Len(serializeObjects(SubSeq(SavedRecords, 1, k)))
                                  <= Len(bytes)
                   /\ \A m \in (k + 1)..Len(SavedRecords) :
                         8 + Len(serializeObjects(SubSeq(SavedRecords, 1, m))) > Len(bytes))

=============================================================================
